---- MODULE Spec2Model ----
(***************************************************************************)
(* fabric-network: the Network class (commit listeners, initialization,    *)
(* disposal) over the StubEventService event streams and their transaction *)
(* listeners.  JavaScript is single threaded: synchronous code (a dispatch *)
(* and the callbacks it runs) is a call stack, and an async function       *)
(* interleaves with other work only at its awaits.                         *)
(***************************************************************************)
EXTENDS Integers, Sequences, FiniteSets, TLC

\* ------------------------------------------------------------ bounds
MaxUserListeners == 2  \* listeners registered directly by the caller
MaxSends == 2          \* sendEvent / sendError calls in one behaviour
MaxDepth == 2          \* nested synchronous frames (re-entrant calls)
MaxSessions == 2       \* commit listener sessions ever constructed
MaxBlockListeners == 2 \* block listeners added to a Network
MaxInits == 2          \* _initialize calls that get past the initialized check

\* ------------------------------------------------------------ values
Peers == {"A", "B"}           \* one StubEventService (stream) per peer
TxIds == {"T", "U"}
Callbacks == {"c1", "c2"}     \* identities of commit listener callbacks
Undef == "undefined"
Err == "error"
None == "none"
PeerLists == {<<"B">>, <<"A", "B">>}   \* the peers a session is started over

VARIABLES
    eventListeners,  \* StubEventService.eventListeners: stream -> set of listener ids
    lsn,             \* the listener objects ever created; id = position = insertion order
    stack,           \* synchronous call stack: dispatch and notification frames
    calls,           \* per listener: callback invocations, and what was due to it
    used,            \* calls made so far, by kind, against the bounds
    result,          \* the most recent step: operation, argument, exception thrown
    network,         \* the Network object's fields
    commitListeners, \* Network.commitListeners: callback -> session id (0: no entry)
    sessions,        \* the CommitListenerSession objects ever constructed
    inits            \* _initialize calls suspended at an await

vars == <<eventListeners, lsn, stack, calls, used, result,
          network, commitListeners, sessions, inits>>
streamVars == <<eventListeners, lsn, stack, calls, used>>
netVars == <<network, commitListeners, sessions, inits>>

Ids == 1..Len(lsn)
Top == stack[Len(stack)]
Pop == SubSeq(stack, 1, Len(stack) - 1)
SetTop(f) == [stack EXCEPT ![Len(stack)] = f]
Min(S) == CHOOSE x \in S : \A y \in S : x <= y
Range(q) == {q[i] : i \in DOMAIN q}
Remove(q, i) == SubSeq(q, 1, i - 1) \o SubSeq(q, i + 1, Len(q))

\* Synchronous API calls are made from top level or from inside a running callback.
Callable == IF stack = <<>> THEN TRUE ELSE Top.phase = "cb"
\* The continuation of an await runs on an empty call stack.
Resumable == stack = <<>>

NoArgs == [err |-> Undef, evt |-> Undef]
Did(op, arg, threw) == [op |-> op, arg |-> arg, threw |-> threw]

\* ------------------------------------------------------------ StubEventService

\* new StubTransactionEventListener(this, txid, callback, options); owner is the
\* session whose callback it carries (0: the caller's own callback)
StubTransactionEventListener(s, txid, options, owner) ==
    [stream |-> s, transactionId |-> txid, unregister |-> options, owner |-> owner]

\* this.eventListeners.add(listener)
AddListener(els, s, l) == [els EXCEPT ![s] = @ \cup {l}]

Unregistered == "unregisterEventLister called for listener that is not registered"

\* Faulty variant: the delete without the check of what it removed
unregisterEventListenerSilent(els, s, l) ==
    [set |-> [els EXCEPT ![s] = @ \ {l}], threw |-> None]

\* unregisterEventListener: Set.delete, throwing when nothing was removed
unregisterEventListener(els, s, l) ==
    [set |-> [els EXCEPT ![s] = @ \ {l}],
     threw |-> IF l \in els[s] THEN None ELSE Unregistered]

\* Faulty variant: an error is not taken as a match
MatchesEventOnly(l, error, event) == event = lsn[l].transactionId

\* Faulty variant: every event is taken as a match
MatchesAny(l, error, event) == TRUE

\* onEvent's condition: error || event.transactionId === this.transactionId
Matches(l, error, event) == error # Undef \/ event = lsn[l].transactionId

\* event.transactionId is read only when error is falsy; reading it on undefined throws
ReadsUndefined(error, event) == error = Undef /\ event = Undef

\* Faulty variant: this.options.unregister === true
ShouldUnregisterOnlyTrue(l) == lsn[l].unregister = "true"

\* this.options.unregister !== false
ShouldUnregister(l) == lsn[l].unregister # "false"

\* Faulty variant: forEach over a copy of the set taken when the send was called
ForEachRestSnapshot(f) == {l \in f.snapshot : l > f.last}

\* Set.prototype.forEach over the live set: entries not yet visited, in insertion
\* order; a deleted entry is skipped, an entry added during the iteration is visited.
ForEachRest(f) == {l \in eventListeners[f.stream] : l > f.last}

Frame(s, error, event) ==
    [kind |-> "dispatch", stream |-> s, error |-> error, event |-> event, last |-> 0,
     phase |-> "iter", cur |-> 0, args |-> NoArgs, sid |-> 0,
     snapshot |-> eventListeners[s], visited |-> <<>>, stale |-> FALSE]

\* Per listener: callbacks invoked with an event and with an error; onEvent
\* invocations carrying an event of the listener's transaction (dueEvent) and
\* carrying an error (dueError); unregistrations made by onEvent.
NoCalls == [event |-> 0, error |-> 0, dueEvent |-> 0, dueError |-> 0, unregs |-> 0]
Observe(l, f, invoked, unregistered) ==
    [calls EXCEPT
        ![l].event = @ + (IF invoked /\ f.event # Undef THEN 1 ELSE 0),
        ![l].error = @ + (IF invoked /\ f.error # Undef THEN 1 ELSE 0),
        ![l].dueEvent = @ + (IF f.error = Undef /\ f.event = lsn[l].transactionId
                             THEN 1 ELSE 0),
        ![l].dueError = @ + (IF f.error # Undef THEN 1 ELSE 0),
        ![l].unregs = @ + (IF unregistered THEN 1 ELSE 0)]

\* sendEvent(event): forEach(listener => listener.onEvent(undefined, event))
sendEvent(s, event) == Frame(s, Undef, event)

\* Faulty variant: sendError passing an event along with the error
sendErrorWithEvent(s, error) == Frame(s, error, "T")

\* sendError(error): forEach(listener => listener.onEvent(error, undefined))
sendError(s, error) == Frame(s, error, Undef)

\* ------------------------------------------------------------ CommitListenerSession

\* new CommitListenerSession(listener, eventServiceManager, peers, transactionId)
CommitListenerSession(c, peers, txid) ==
    [listener |-> c, peers |-> peers, transactionId |-> txid,
     handles |-> [p \in Peers |-> 0], next |-> 1, pc |-> "opening", closed |-> FALSE,
     log |-> <<>>, delivered |-> {}]

\* The session's per-peer callback: forwards (error, event) to the caller's
\* callback, annotated with the peer.
Forward(sess, p, args) ==
    [sess EXCEPT !.log = Append(@, [err |-> args.err, evt |-> args.evt, peer |-> p])]

\* session.close(): unregister every still-registered per-peer listener
close(els, sess) == [s \in Peers |-> els[s] \ {sess.handles[s]}]

AfterPeer(sess) == IF sess.next > Len(sess.peers) THEN "started" ELSE "opening"

\* ------------------------------------------------------------ Network

\* constructor(gateway, channel).  contracts: the keys of the contract map;
\* listeners: the listeners saved in the registry, unregistered: those of them on
\* which unregister() has been called.  The calls made on the channel and its
\* client are counted: connects (newDiscoverer and connect), requests
\* (newDiscoveryService, build, sign and send), channelClosed (close).
Network ==
    [initialized |-> FALSE, discoveryService |-> "null", queryHandler |-> "null",
     eventServiceManager |-> "null", channelClosed |-> FALSE,
     contracts |-> {}, listeners |-> {}, unregistered |-> {},
     connects |-> 0, requests |-> 0]

\* Faulty variant: no look-up of the listener
HasCommitListenerNever(c) == FALSE

\* this.commitListeners.has(listener)
HasCommitListener(c) == commitListeners[c] # 0

\* Faulty variant: the session is not stored when it is constructed
SetCommitListenerSkipped(c, sid) == commitListeners

\* this.commitListeners.set(listener, session)
SetCommitListener(c, sid) == [commitListeners EXCEPT ![c] = sid]

Init ==
    /\ eventListeners = [s \in Peers |-> {}]
    /\ lsn = <<>>
    /\ stack = <<>>
    /\ calls = <<>>
    /\ used = [sends |-> 0, inits |-> 0]
    /\ result = Did("constructor", None, None)
    /\ network = Network
    /\ commitListeners = [c \in Callbacks |-> 0]
    /\ sessions = <<>>
    /\ inits = <<>>

\* ------------------------------------------------------------ event stream actions

UserListeners == {l \in Ids : lsn[l].owner = 0}

\* registerTransactionListener(txid, callback, options), called by the caller
RegisterTransactionListener(s, txid, options) ==
    /\ Callable
    /\ Cardinality(UserListeners) < MaxUserListeners
    /\ lsn' = Append(lsn, StubTransactionEventListener(s, txid, options, 0))
    /\ calls' = Append(calls, NoCalls)
    /\ eventListeners' = AddListener(eventListeners, s, Len(lsn) + 1)
    /\ result' = Did("registerTransactionListener", <<s, Len(lsn) + 1>>, None)
    /\ UNCHANGED <<stack, used>>
    /\ UNCHANGED netVars

\* unregisterEventListener(handle) called by the caller, with a handle it holds,
\* on any stream
UnregisterEventListener(s, l) ==
    /\ Callable
    /\ l \in UserListeners
    /\ LET r == unregisterEventListener(eventListeners, s, l) IN
        /\ eventListeners' = r.set
        /\ result' = Did("unregisterEventListener", <<s, l>>, r.threw)
    /\ UNCHANGED <<lsn, stack, calls, used>>
    /\ UNCHANGED netVars

SendEvent(s, event) ==
    /\ Callable
    /\ Len(stack) < MaxDepth /\ used.sends < MaxSends
    /\ stack' = Append(stack, sendEvent(s, event))
    /\ used' = [used EXCEPT !.sends = @ + 1]
    /\ result' = Did("sendEvent", None, None)
    /\ UNCHANGED <<eventListeners, lsn, calls>>
    /\ UNCHANGED netVars

SendError(s, error) ==
    /\ Callable
    /\ Len(stack) < MaxDepth /\ used.sends < MaxSends
    /\ stack' = Append(stack, sendError(s, error))
    /\ used' = [used EXCEPT !.sends = @ + 1]
    /\ result' = Did("sendError", None, None)
    /\ UNCHANGED <<eventListeners, lsn, calls>>
    /\ UNCHANGED netVars

Iterating == IF stack = <<>> THEN FALSE ELSE Top.phase = "iter"
Running == IF stack = <<>> THEN FALSE ELSE Top.phase = "cb"

\* What a send that has returned delivered: to every session that had its listener on
\* the stream when the send was called and has not been closed, a payload that
\* concerns its transaction.
Delivered(f, sess) ==
    IF /\ sess.handles[f.stream] \in f.snapshot
       /\ ~sess.closed
       /\ (f.error # Undef \/ f.event = sess.transactionId)
    THEN {<<f.stream, IF f.error # Undef THEN "error" ELSE "event">>}
    ELSE {}

\* forEach has no entry left: sendEvent / sendError returns.
ForEachDone ==
    /\ Iterating
    /\ ForEachRest(Top) = {}
    /\ stack' = Pop
    /\ sessions' = [i \in DOMAIN sessions |->
                      [sessions[i] EXCEPT !.delivered = @ \cup Delivered(Top, sessions[i])]]
    /\ result' = Did("return", None, None)
    /\ UNCHANGED <<eventListeners, lsn, calls, used, network, commitListeners, inits>>

\* onEvent(error, event) on the next entry, no match: nothing happens.
OnEventNoMatch ==
    /\ Iterating
    /\ ForEachRest(Top) # {}
    /\ LET f == Top
           l == Min(ForEachRest(f)) IN
        /\ ~ReadsUndefined(f.error, f.event)
        /\ ~Matches(l, f.error, f.event)
        /\ stack' = SetTop([f EXCEPT !.last = l, !.visited = Append(@, l),
                                     !.stale = @ \/ l \notin eventListeners[f.stream]])
        /\ calls' = Observe(l, f, FALSE, FALSE)
        /\ result' = Did("onEvent", l, None)
    /\ UNCHANGED <<eventListeners, lsn, used>>
    /\ UNCHANGED netVars

\* onEvent evaluates event.transactionId on an undefined event: TypeError, which
\* leaves forEach and the send call.
OnEventTypeError ==
    /\ Iterating
    /\ ForEachRest(Top) # {}
    /\ ReadsUndefined(Top.error, Top.event)
    /\ stack' = Pop
    /\ result' = Did("onEvent", Min(ForEachRest(Top)), "TypeError")
    /\ UNCHANGED <<eventListeners, lsn, calls, used>>
    /\ UNCHANGED netVars

\* onEvent on the next entry, match: unregister unless options.unregister is
\* false, then invoke the callback with (error, event).  A session's listener
\* forwards to the caller's commit callback.
OnEventMatch ==
    /\ Iterating
    /\ ForEachRest(Top) # {}
    /\ LET f == Top
           l == Min(ForEachRest(f))
           r == unregisterEventListener(eventListeners, f.stream, l)
           a == [err |-> f.error, evt |-> f.event]
           g == [f EXCEPT !.visited = Append(@, l),
                          !.stale = @ \/ l \notin eventListeners[f.stream]] IN
        /\ ~ReadsUndefined(f.error, f.event)
        /\ Matches(l, f.error, f.event)
        /\ IF ShouldUnregister(l) /\ r.threw # None
           THEN \* unregisterEventListener throws out of onEvent, forEach and send
                /\ stack' = Pop
                /\ result' = Did("onEvent", l, r.threw)
                /\ calls' = Observe(l, f, FALSE, TRUE)
                /\ UNCHANGED <<eventListeners, sessions>>
           ELSE /\ eventListeners' = IF ShouldUnregister(l) THEN r.set ELSE eventListeners
                /\ stack' = SetTop([g EXCEPT !.phase = "cb", !.cur = l, !.args = a])
                /\ calls' = Observe(l, f, TRUE, ShouldUnregister(l))
                /\ sessions' = IF lsn[l].owner = 0 THEN sessions
                               ELSE [sessions EXCEPT ![lsn[l].owner] =
                                        Forward(@, f.stream, a)]
                /\ result' = Did("callback", l, None)
    /\ UNCHANGED <<lsn, used, network, commitListeners, inits>>

\* The callback returns: forEach goes on after the entry it was at; a start-error
\* notification lets session.start() go on with the next peer.
CallbackReturn ==
    /\ Running
    /\ IF Top.kind = "dispatch"
       THEN /\ stack' = SetTop([Top EXCEPT !.phase = "iter", !.last = Top.cur,
                                           !.cur = 0, !.args = NoArgs])
            /\ UNCHANGED sessions
       ELSE /\ stack' = Pop
            /\ sessions' = [sessions EXCEPT ![Top.sid].pc = AfterPeer(sessions[Top.sid])]
    /\ result' = Did("callbackReturn", None, None)
    /\ UNCHANGED <<eventListeners, lsn, calls, used, network, commitListeners, inits>>

\* The callback throws: the exception leaves onEvent, forEach and the send call; out
\* of a start-error notification it rejects session.start().
CallbackThrow ==
    /\ Running
    /\ stack' = Pop
    /\ sessions' = IF Top.kind = "dispatch" THEN sessions
                   ELSE [sessions EXCEPT ![Top.sid].pc = "rejected"]
    /\ result' = Did("callbackThrow", None, "callback error")
    /\ UNCHANGED <<eventListeners, lsn, calls, used, network, commitListeners, inits>>

\* The state a Network is in once _initialize({enabled: false}) has completed.
InitInitialized ==
    /\ eventListeners = [s \in Peers |-> {}]
    /\ lsn = <<>>
    /\ stack = <<>>
    /\ calls = <<>>
    /\ used = [sends |-> 0, inits |-> 1]
    /\ result = Did("resume", "_initialize", None)
    /\ network = [Network EXCEPT !.initialized = TRUE, !.queryHandler = "set",
                                 !.eventServiceManager = "set"]
    /\ commitListeners = [c \in Callbacks |-> 0]
    /\ sessions = <<>>
    /\ inits = <<>>

\* ------------------------------------------------------------ commit listeners

\* addCommitListener(listener, peers, transactionId), up to its first await.  The
\* session is stored before it is started; start() resolves each peer's event
\* service through the event service manager, which fails at once without one.
AddCommitListener(c, peers, txid) ==
    /\ Callable
    /\ IF HasCommitListener(c)
       THEN UNCHANGED <<sessions, commitListeners>>
       ELSE /\ Len(sessions) < MaxSessions
            /\ sessions' = Append(sessions,
                  [CommitListenerSession(c, peers, txid) EXCEPT
                      !.pc = IF network.eventServiceManager = "null"
                             THEN "rejected" ELSE "opening"])
            /\ commitListeners' = SetCommitListener(c, Len(sessions) + 1)
    /\ result' = Did("addCommitListener", c, None)
    /\ UNCHANGED <<streamVars, network, inits>>

\* session.start() resumes: the next peer's event stream has been opened, and a
\* transaction listener is registered on it with unregister: true.
StartRegister(sid) ==
    /\ Resumable
    /\ sid \in DOMAIN sessions
    /\ sessions[sid].pc = "opening"
    /\ LET sess == sessions[sid]
           p == sess.peers[sess.next]
           l == Len(lsn) + 1
           t == [sess EXCEPT !.handles[p] = l, !.next = @ + 1] IN
        /\ lsn' = Append(lsn, StubTransactionEventListener(p, sess.transactionId, "true", sid))
        /\ calls' = Append(calls, NoCalls)
        /\ eventListeners' = AddListener(eventListeners, p, l)
        /\ sessions' = [sessions EXCEPT ![sid] = [t EXCEPT !.pc = AfterPeer(t)]]
        /\ result' = Did("resume", "start", None)
    /\ UNCHANGED <<stack, used, network, commitListeners, inits>>

\* session.start() resumes: opening the next peer's event stream failed, which is
\* reported to the caller's callback as that peer's error.
StartFailed(sid) ==
    /\ Resumable
    /\ sid \in DOMAIN sessions
    /\ sessions[sid].pc = "opening"
    /\ LET sess == sessions[sid]
           p == sess.peers[sess.next]
           a == [err |-> Err, evt |-> Undef]
           t == Forward([sess EXCEPT !.next = @ + 1, !.pc = "notifying"], p, a) IN
        /\ sessions' = [sessions EXCEPT ![sid] = t]
        /\ stack' = <<[Frame(p, Err, Undef) EXCEPT !.kind = "notify", !.phase = "cb",
                                                  !.args = a, !.sid = sid,
                                                  !.snapshot = {}]>>
        /\ result' = Did("notify", None, None)
    /\ UNCHANGED <<eventListeners, lsn, calls, used, network, commitListeners, inits>>

\* Faulty variant: the entry deleted without closing the session
removeCommitListenerNoClose(c) ==
    [eventListeners |-> eventListeners, sessions |-> sessions,
     commitListeners |-> [commitListeners EXCEPT ![c] = 0]]

\* removeCommitListener(listener): close the session, then delete the entry
removeCommitListener(c) ==
    LET sid == commitListeners[c] IN
    IF HasCommitListener(c)
    THEN [eventListeners |-> close(eventListeners, sessions[sid]),
          sessions |-> [sessions EXCEPT ![sid].closed = TRUE],
          commitListeners |-> [commitListeners EXCEPT ![c] = 0]]
    ELSE [eventListeners |-> eventListeners, sessions |-> sessions,
          commitListeners |-> commitListeners]

RemoveCommitListener(c) ==
    /\ Callable
    /\ LET r == removeCommitListener(c) IN
        /\ eventListeners' = r.eventListeners
        /\ sessions' = r.sessions
        /\ commitListeners' = r.commitListeners
    /\ result' = Did("removeCommitListener", c, None)
    /\ UNCHANGED <<lsn, stack, calls, used, network, inits>>

\* ------------------------------------------------------------ initialization

Endorser(name, connected) == [name |-> name, connected |-> connected]
NoTargets == "No discovery targets found"
NotConnected(name) ==
    IF name = "A" THEN "Endorser instance A is not connected to an endpoint"
    ELSE "Endorser instance B is not connected to an endpoint"

\* options.targets as the caller may give it (given: the property is truthy)
TargetOptions ==
    {[given |-> FALSE, list |-> <<>>],
     [given |-> TRUE, list |-> <<>>],
     [given |-> TRUE, list |-> <<Endorser("A", TRUE)>>],
     [given |-> TRUE, list |-> <<Endorser("A", TRUE), Endorser("B", FALSE)>>],
     [given |-> TRUE, list |-> <<Endorser("A", TRUE), Endorser("B", TRUE)>>]}
\* what channel.getEndorsers(mspId), client.getEndorsers(mspId) and
\* client.getEndorsers() may answer
EndorserLists ==
    {<<>>, <<Endorser("A", TRUE)>>, <<Endorser("A", TRUE), Endorser("B", TRUE)>>}

\* Faulty variant: the caller's targets are taken as given, unchecked
ResolveTargetsUnchecked(targets, channelMsp, clientMsp, clientAll) ==
    IF targets.given
    THEN [threw |-> None, targets |-> targets.list]
    ELSE LET t1 == channelMsp
             t2 == IF Len(t1) < 1 THEN clientMsp ELSE t1
             t3 == IF Len(t2) < 1 THEN clientAll ELSE t2
         IN IF Len(t3) < 1 THEN [threw |-> NoTargets, targets |-> <<>>]
            ELSE [threw |-> None, targets |-> t3]

\* Faulty variant: the client's endorsers of any organization are looked at first
ResolveTargetsAnyFirst(targets, channelMsp, clientMsp, clientAll) ==
    IF targets.given
    THEN IF Len(targets.list) > 0
         THEN IF \E i \in DOMAIN targets.list : ~targets.list[i].connected
              THEN LET i == Min({j \in DOMAIN targets.list : ~targets.list[j].connected})
                   IN [threw |-> NotConnected(targets.list[i].name), targets |-> <<>>]
              ELSE [threw |-> None, targets |-> targets.list]
         ELSE [threw |-> NoTargets, targets |-> <<>>]
    ELSE LET t1 == clientAll
             t2 == IF Len(t1) < 1 THEN clientMsp ELSE t1
             t3 == IF Len(t2) < 1 THEN channelMsp ELSE t2
         IN IF Len(t3) < 1 THEN [threw |-> NoTargets, targets |-> <<>>]
            ELSE [threw |-> None, targets |-> t3]

\* _initializeInternalChannel's choice of discovery targets
ResolveTargets(targets, channelMsp, clientMsp, clientAll) ==
    IF targets.given
    THEN IF Len(targets.list) > 0
         THEN IF \E i \in DOMAIN targets.list : ~targets.list[i].connected
              THEN LET i == Min({j \in DOMAIN targets.list : ~targets.list[j].connected})
                   IN [threw |-> NotConnected(targets.list[i].name), targets |-> <<>>]
              ELSE [threw |-> None, targets |-> targets.list]
         ELSE [threw |-> NoTargets, targets |-> <<>>]
    ELSE LET t1 == channelMsp
             t2 == IF Len(t1) < 1 THEN clientMsp ELSE t1
             t3 == IF Len(t2) < 1 THEN clientAll ELSE t2
         IN IF Len(t3) < 1 THEN [threw |-> NoTargets, targets |-> <<>>]
            ELSE [threw |-> None, targets |-> t3]

\* every outcome of the choice of targets, over the options and answers above
ResolveOutcomes ==
    {ResolveTargets(t, l1, l2, l3) : t \in TargetOptions, l1 \in EndorserLists,
                                     l2 \in EndorserLists, l3 \in EndorserLists}

\* The discover argument of _initialize together with what the channel and the
\* client answer while the targets are chosen.
Discover(enabled, targets, channelMsp, clientMsp, clientAll) ==
    [enabled |-> enabled, targets |-> targets, channelMsp |-> channelMsp,
     clientMsp |-> clientMsp, clientAll |-> clientAll]
DiscoveryDisabled == Discover(FALSE, [given |-> FALSE, list |-> <<>>], <<>>, <<>>, <<>>)
DiscoveryEnabled ==
    {Discover(TRUE, t, l1, l2, l3) : t \in TargetOptions, l1 \in EndorserLists,
                                     l2 \in EndorserLists, l3 \in EndorserLists}

\* Faulty variant: no check of the flag
AlreadyInitializedNever == FALSE

\* if (this.initialized) return
AlreadyInitialized == network.initialized

\* _initialize(discover), up to its first await.  With discovery enabled the
\* targets are chosen and the first discoverer is created and asked to connect.
Initialize(discover) ==
    /\ Callable
    /\ IF AlreadyInitialized
       THEN /\ result' = Did("_initialize", discover, None)
            /\ UNCHANGED <<network, inits, used>>
       ELSE /\ used.inits < MaxInits
            /\ used' = [used EXCEPT !.inits = @ + 1]
            /\ IF discover.enabled
               THEN LET r == ResolveTargets(discover.targets, discover.channelMsp,
                                            discover.clientMsp, discover.clientAll) IN
                    /\ inits' = IF r.threw # None THEN inits
                                ELSE Append(inits, [pc |-> "connect", left |-> Len(r.targets),
                                                    targets |-> r.targets])
                    /\ network' = IF r.threw # None THEN network
                                  ELSE [network EXCEPT !.connects = @ + 1]
                    /\ result' = Did("_initialize", discover, r.threw)
               ELSE /\ network' = [network EXCEPT !.discoveryService = "null"]
                    /\ inits' = Append(inits, [pc |-> "finish", left |-> 0,
                                                targets |-> <<>>])
                    /\ result' = Did("_initialize", discover, None)
    /\ UNCHANGED <<eventListeners, lsn, stack, calls, commitListeners, sessions>>

\* await discoverer.connect(peer.endpoint) resolves; after the last one the
\* discovery service is created, and the request built, signed and sent.
InitConnected(i) ==
    /\ Resumable
    /\ i \in DOMAIN inits
    /\ inits[i].pc = "connect"
    /\ IF inits[i].left > 1
       THEN /\ inits' = [inits EXCEPT ![i].left = @ - 1]
            /\ network' = [network EXCEPT !.connects = @ + 1]
       ELSE /\ inits' = [inits EXCEPT ![i].pc = "send", ![i].left = 0]
            /\ network' = [network EXCEPT !.discoveryService = "set",
                                          !.requests = @ + 1]
    /\ result' = Did("resume", "connect", None)
    /\ UNCHANGED <<streamVars, commitListeners, sessions>>

\* await discoveryService.send(...) resolves
InitSent(i) ==
    /\ Resumable
    /\ i \in DOMAIN inits
    /\ inits[i].pc = "send"
    /\ inits' = [inits EXCEPT ![i].pc = "finish"]
    /\ result' = Did("resume", "send", None)
    /\ UNCHANGED <<streamVars, network, commitListeners, sessions>>

\* connect or send rejects: _initializeInternalChannel and _initialize reject
InitRejected(i) ==
    /\ Resumable
    /\ i \in DOMAIN inits
    /\ inits[i].pc \in {"connect", "send"}
    /\ inits' = Remove(inits, i)
    /\ result' = Did("resume", "_initialize", "discovery error")
    /\ UNCHANGED <<streamVars, network, commitListeners, sessions>>

\* _initialize resumes after await this._initializeInternalChannel(discover)
InitFinish(i, strategyThrows) ==
    /\ Resumable
    /\ i \in DOMAIN inits
    /\ inits[i].pc = "finish"
    /\ inits' = Remove(inits, i)
    /\ network' = IF strategyThrows THEN [network EXCEPT !.initialized = TRUE]
                  ELSE [network EXCEPT !.initialized = TRUE, !.queryHandler = "set",
                                       !.eventServiceManager = "set"]
    /\ result' = Did("resume", "_initialize",
                      IF strategyThrows THEN "strategy error" ELSE None)
    /\ UNCHANGED <<streamVars, commitListeners, sessions>>

\* _dispose(): unregister every saved listener, clear the contracts, dispose the
\* event service manager, close the channel, reset the flag.
\* eventServiceManager.dispose() on null throws before the channel is closed and
\* the flag reset.  The commit listener map is not touched.
Dispose ==
    /\ Callable
    /\ LET n == [network EXCEPT !.unregistered = network.listeners, !.contracts = {}] IN
       IF network.eventServiceManager = "null"
       THEN /\ result' = Did("_dispose", None, "TypeError")
            /\ network' = n
       ELSE /\ network' = [n EXCEPT !.eventServiceManager = "disposed",
                                    !.channelClosed = TRUE, !.initialized = FALSE]
            /\ result' = Did("_dispose", None, None)
    /\ UNCHANGED <<streamVars, commitListeners, sessions, inits>>

\* ------------------------------------------------------------ contracts and listeners

\* `${chaincodeId}:${name}`
ContractKeys == {"cc:", "cc:asset"}
NotInitialized == "Unable to get contract as this network has failed to initialize"

\* getContract(chaincodeId, name): throws unless initialized, else returns the
\* contract of the key, creating and storing it if there is none.
GetContract(key) ==
    /\ Callable
    /\ IF ~network.initialized
       THEN /\ result' = Did("getContract", key, NotInitialized)
            /\ UNCHANGED network
       ELSE /\ network' = [network EXCEPT !.contracts = @ \cup {key}]
            /\ result' = Did("getContract", key, None)
    /\ UNCHANGED <<streamVars, commitListeners, sessions, inits>>

\* saveListener(listenerName, listener): this.listeners.set(listenerName, listener)
saveListener(l) == [network EXCEPT !.listeners = @ \cup {l}]

\* addBlockListener(callback, options, eventService), up to await
\* listener.register(): a new listener is constructed and saved in the registry.
AddBlockListener ==
    /\ Callable
    /\ Cardinality(network.listeners) < MaxBlockListeners
    /\ network' = saveListener(Cardinality(network.listeners) + 1)
    /\ result' = Did("addBlockListener", Cardinality(network.listeners) + 1, None)
    /\ UNCHANGED <<streamVars, commitListeners, sessions, inits>>

\* ------------------------------------------------------------ specifications

\* the caller's direct use of an event stream
ListenerNext ==
    \/ \E s \in Peers, t \in TxIds, o \in {"unset", "false"} :
          RegisterTransactionListener(s, t, o)
    \/ \E s \in Peers, l \in 1..MaxUserListeners : UnregisterEventListener(s, l)
    \/ \E s \in Peers : SendEvent(s, Undef)
    \/ \E s \in Peers : SendError(s, Undef)
    \/ OnEventTypeError

\* the transport pushing events and errors into a stream, and their dispatch
DispatchNext ==
    \/ \E s \in Peers, e \in TxIds : SendEvent(s, e)
    \/ \E s \in Peers : SendError(s, Err)
    \/ ForEachDone
    \/ OnEventNoMatch
    \/ OnEventMatch
    \/ CallbackReturn
    \/ CallbackThrow

CommitNext ==
    \/ \E c \in Callbacks, p \in PeerLists : AddCommitListener(c, p, "T")
    \/ \E sid \in 1..MaxSessions : StartRegister(sid)
    \/ \E sid \in 1..MaxSessions : StartFailed(sid)
    \/ \E c \in Callbacks : RemoveCommitListener(c)

\* initialization with discovery disabled
PlainInitNext ==
    \/ Initialize(DiscoveryDisabled)
    \/ \E i \in 1..MaxInits, b \in BOOLEAN : InitFinish(i, b)

\* contracts and block listeners
WorkNext ==
    \/ \E k \in ContractKeys : GetContract(k)
    \/ AddBlockListener

\* the callback of a start-error notification returning or throwing
NotifyNext ==
    \/ CallbackReturn
    \/ CallbackThrow

DiscoveryNext ==
    \/ \E d \in DiscoveryEnabled : Initialize(d)
    \/ \E i \in 1..MaxInits : InitConnected(i)
    \/ \E i \in 1..MaxInits : InitSent(i)
    \/ \E i \in 1..MaxInits : InitRejected(i)

Next ==
    \/ ListenerNext \/ DispatchNext \/ CommitNext
    \/ PlainInitNext \/ DiscoveryNext \/ WorkNext \/ Dispose

\* The whole program.
Spec == Init /\ [][Next]_vars
\* The event streams alone, driven by a caller and its callbacks.
SpecStream == Init /\ [][ListenerNext \/ DispatchNext]_vars
\* Commit listener sessions of an initialized Network over the event streams.
SpecCommit == InitInitialized /\ [][CommitNext \/ DispatchNext]_vars
\* Initialization and disposal of the Network.
SpecInit == Init /\ [][PlainInitNext \/ DiscoveryNext \/ Dispose]_vars
\* Initialization without discovery, contracts, block listeners and disposal.
SpecNetwork == Init /\ [][PlainInitNext \/ WorkNext \/ Dispose]_vars
\* Commit listener sessions over initialization and disposal; the event streams
\* deliver nothing.
SpecSessions ==
    Init /\ [][PlainInitNext \/ CommitNext \/ NotifyNext \/ Dispose]_vars
\* Work registered on an initialized Network before and after its disposal.
SpecDisposal ==
    InitInitialized /\ [][WorkNext \/ CommitNext \/ NotifyNext \/ Dispose]_vars

\* ------------------------------------------------------------ properties

Count(q, x) == Cardinality({i \in DOMAIN q : q[i] = x})
IsSendEvent(f) == f.kind = "dispatch" /\ f.error = Undef
IsSendError(f) == f.kind = "dispatch" /\ f.error # Undef
\* frame i is the running send call and its forEach has no entry left
Returning(i) == i = Len(stack) /\ stack[i].phase = "iter" /\ ForEachRest(stack[i]) = {}
Registered(l) == l \in eventListeners[lsn[l].stream]
OneShot(l) == lsn[l].unregister # "false"
Xor(a) == (a.err = Undef) # (a.evt = Undef)

\* C1 as stated: a sendEvent call invokes onEvent exactly once on every listener
\* that was registered when it was called, and on no listener that has been
\* unregistered.
C1_EveryListenerAtCallInvokedOnce ==
    \A i \in DOMAIN stack : IsSendEvent(stack[i]) =>
        /\ ~stack[i].stale
        /\ Returning(i) =>
              \A l \in stack[i].snapshot : Count(stack[i].visited, l) = 1

\* C1 amended: a sendEvent call invokes onEvent on no listener twice and on no
\* listener that has been unregistered, and when it returns it has invoked onEvent
\* exactly once on every listener that was registered when it was called, except
\* those unregistered during the call before their turn, which it has skipped.
C1_ListenersStillRegisteredInvokedOnce ==
    \A i \in DOMAIN stack : IsSendEvent(stack[i]) =>
        /\ ~stack[i].stale
        /\ \A l \in Ids : Count(stack[i].visited, l) <= 1
        /\ Returning(i) =>
              \A l \in stack[i].snapshot :
                  \/ Count(stack[i].visited, l) = 1
                  \/ Count(stack[i].visited, l) = 0 /\ ~Registered(l)

\* A sendEvent call returns having invoked a one-shot listener, which unregistered
\* itself, and having skipped a listener that a callback unregistered.
C1_Witness ==
    /\ stack # <<>>
    /\ IsSendEvent(Top) /\ Returning(Len(stack))
    /\ \E l1, l2 \in Top.snapshot :
          /\ Count(Top.visited, l1) = 1 /\ OneShot(l1) /\ ~Registered(l1)
          /\ Count(Top.visited, l2) = 0 /\ ~Registered(l2)

\* C4: a listener registered with unregister unset has its callback invoked once by
\* the first event of its transaction that reaches it, is not in the stream's
\* listener set from that invocation on, and is never invoked again.
C4_DefaultListenerFiresOnceThenGone ==
    \A l \in Ids : lsn[l].unregister = "unset" =>
        /\ calls[l].event + calls[l].error <= 1
        /\ calls[l].dueEvent >= 1 => calls[l].event = 1
        /\ calls[l].event = 1 => ~Registered(l)

\* A second event of the transaction is being dispatched on the stream of a default
\* listener that fired on the first.
C4_Witness ==
    \E l \in Ids :
        /\ lsn[l].unregister = "unset" /\ calls[l].event = 1 /\ used.sends = 2
        /\ Len(stack) = 1 /\ IsSendEvent(Top) /\ Returning(1)
        /\ Top.stream = lsn[l].stream /\ Top.event = lsn[l].transactionId
        /\ l \notin Top.snapshot

\* C5: a listener registered with unregister: false has its callback invoked once
\* for every event of its transaction that reaches it and for no other event, is
\* never unregistered by onEvent, and is in the listener set when its callback is
\* invoked.
C5_PersistentListenerFiresOnEveryMatch ==
    /\ \A l \in Ids : lsn[l].unregister = "false" =>
          calls[l].event = calls[l].dueEvent /\ calls[l].unregs = 0
    /\ result.op = "callback" =>
          (lsn[result.arg].unregister = "false" => Registered(result.arg))

\* A persistent listener has fired on two events and is still registered.
C5_Witness ==
    \E l \in Ids :
        /\ lsn[l].unregister = "false" /\ calls[l].event = 2 /\ Registered(l)
        /\ stack = <<>>

\* C6: every onEvent carrying an error invokes the listener's callback, whatever
\* transaction it watches; a one-shot listener is unregistered by onEvent at most
\* once and invoked at most once, and onEvent's unregistration never fails, also
\* when an error is sent from inside a callback of an error being dispatched.
C6_ErrorsMatchAllOneShotOnce ==
    /\ \A l \in Ids : calls[l].error = calls[l].dueError
    /\ \A l \in Ids : OneShot(l) =>
          calls[l].unregs <= 1 /\ calls[l].event + calls[l].error <= 1
    /\ result.op = "onEvent" => result.threw # Unregistered

\* An error sent from inside a callback of an error dispatch reached a one-shot
\* listener first; the outer dispatch returns without invoking it again.
C6_Witness ==
    \E l \in Ids :
        /\ OneShot(l) /\ calls[l].error = 1 /\ calls[l].unregs = 1 /\ used.sends = 2
        /\ Len(stack) = 1 /\ IsSendError(Top) /\ Returning(1)
        /\ l \in Top.snapshot /\ Count(Top.visited, l) = 0

\* C7: unregisterEventListener with a handle that is not in the stream's listener
\* set throws and leaves every listener set as it was; with a member it removes
\* that handle and nothing else.
C7_UnregisterChecksMembership ==
    [][result'.op = "unregisterEventListener" =>
        LET s == result'.arg[1]
            l == result'.arg[2] IN
        IF l \in eventListeners[s]
        THEN /\ result'.threw = None
             /\ eventListeners' = [eventListeners EXCEPT ![s] = @ \ {l}]
        ELSE /\ result'.threw = Unregistered
             /\ eventListeners' = eventListeners]_vars

\* unregisterEventListener has just failed for a handle registered on the other
\* stream.
C7_Witness ==
    /\ result.op = "unregisterEventListener"
    /\ result.threw = Unregistered
    /\ \E s \in Peers : s # result.arg[1] /\ result.arg[2] \in eventListeners[s]

\* C8: every callback invocation carries an error or an event, never both and never
\* neither: the stream listeners' callbacks and the commit callbacks they forward to.
C8_ErrorXorEvent ==
    /\ \A i \in DOMAIN stack : stack[i].phase = "cb" => Xor(stack[i].args)
    /\ \A sid \in DOMAIN sessions :
          \A k \in DOMAIN sessions[sid].log : Xor(sessions[sid].log[k])

\* A callback invoked with an error is running inside a callback invoked with an
\* event.
C8_Witness ==
    /\ Len(stack) = 2
    /\ stack[1].phase = "cb" /\ stack[1].args.evt # Undef
    /\ stack[2].phase = "cb" /\ stack[2].args.err # Undef

EventFromA == [err |-> Undef, evt |-> "T", peer |-> "A"]
ErrorFromB == [err |-> Err, evt |-> Undef, peer |-> "B"]

\* C2: a session over peers A, B for transaction T that has not been closed, once
\* A's stream has delivered an event of T and B's stream an error, has invoked the
\* caller's callback exactly twice, with (undefined, event from A) and with (error
\* from B, undefined), and has no per-peer listener left on either stream.
C2_EventFromAErrorFromB ==
    \A sid \in DOMAIN sessions :
        LET sess == sessions[sid] IN
        (/\ sess.peers = <<"A", "B">> /\ sess.transactionId = "T"
         /\ ~sess.closed
         /\ sess.delivered = {<<"A", "event">>, <<"B", "error">>}) =>
            /\ Len(sess.log) = 2
            /\ Range(sess.log) = {EventFromA, ErrorFromB}
            /\ \A p \in Peers : sess.handles[p] \notin eventListeners[p]

\* B's error came first and A's event second, and both sends have returned.
C2_Witness ==
    \E sid \in DOMAIN sessions :
        /\ sessions[sid].peers = <<"A", "B">>
        /\ ~sessions[sid].closed
        /\ sessions[sid].delivered = {<<"A", "event">>, <<"B", "error">>}
        /\ sessions[sid].log = <<ErrorFromB, EventFromA>>
        /\ stack = <<>>

OpenSessions(c) ==
    {sid \in DOMAIN sessions : sessions[sid].listener = c /\ ~sessions[sid].closed}

\* C3: for each callback the only session constructed for it and not closed is the
\* one the map holds for it, if any; addCommitListener with a callback that has an entry constructs
\* nothing and changes neither the map nor any session, and with a callback that has
\* none (never added, or removed) it constructs a fresh session and stores it.
C3_OneSessionPerCallback ==
    /\ [](\A c \in Callbacks :
            /\ OpenSessions(c) \subseteq {commitListeners[c]}
            /\ commitListeners[c] # 0 => sessions[commitListeners[c]].listener = c)
    /\ [][result'.op = "addCommitListener" =>
            LET c == result'.arg
                n == Len(sessions) + 1 IN
            IF commitListeners[c] # 0
            THEN sessions' = sessions /\ commitListeners' = commitListeners
            ELSE /\ Len(sessions') = n
                 /\ SubSeq(sessions', 1, n - 1) = sessions
                 /\ commitListeners' = [commitListeners EXCEPT ![c] = n]
                 /\ sessions'[n].listener = c
                 /\ ~sessions'[n].closed
                 /\ sessions'[n].log = <<>>
                 /\ \A p \in Peers : sessions'[n].handles[p] = 0]_vars

\* A callback was added, removed and added again: its first session is closed and
\* the map holds its second.
C3_Witness ==
    \E c \in Callbacks :
        /\ Len(sessions) = 2
        /\ sessions[1].listener = c /\ sessions[1].closed
        /\ sessions[2].listener = c /\ ~sessions[2].closed
        /\ commitListeners[c] = 2
        /\ result.op = "addCommitListener"

\* C9: a session that the map does not hold under its callback has been closed:
\* removeCommitListener deletes the entry only with close() done.
C9_EntryDeletedOnlyAfterClose ==
    \A sid \in DOMAIN sessions :
        commitListeners[sessions[sid].listener] # sid => sessions[sid].closed

\* A session with a live per-peer listener was removed: the listener never fired
\* and is off its stream, the session is closed and its entry gone.
C9_Witness ==
    \E sid \in DOMAIN sessions :
        /\ sessions[sid].closed
        /\ commitListeners[sessions[sid].listener] = 0
        /\ \E p \in Peers :
              LET l == sessions[sid].handles[p] IN
              /\ l # 0
              /\ l \notin eventListeners[p]
              /\ calls[l] = NoCalls

\* C10 as stated: once the Network is initialized, no step makes it uninitialized.
C10_InitializedNeverReverts ==
    [][network.initialized => network.initialized']_vars

\* C10 amended: the flag is set only by an _initialize call resuming after its
\* await and is reset only by _dispose; an _initialize call made while the flag is
\* set returns without changing the Network or starting an initialization.
C10_OnlyDisposeReverts ==
    [][/\ (network.initialized /\ ~network.initialized') => result'.op = "_dispose"
       /\ (~network.initialized /\ network.initialized') =>
             (result'.op = "resume" /\ result'.arg = "_initialize")
       /\ (network.initialized /\ result'.op = "_initialize") =>
             (network' = network /\ inits' = inits /\ used' = used)]_vars

\* _dispose has just reset the flag of an initialized Network.
C10_Witness ==
    /\ result.op = "_dispose" /\ result.threw = None
    /\ ~network.initialized
    /\ used.inits >= 1

\* An _initialize call has just been made on a Network that was not initialized,
\* with discovery enabled.
DiscoveryCall == result'.op = "_initialize" /\ ~network.initialized /\ result'.arg.enabled
\* the names of the peers of a list that are not connected
Unconnected(list) == {list[i].name : i \in {j \in DOMAIN list : ~list[j].connected}}

\* C11: with discovery enabled, an explicit target list that is empty makes
\* _initialize fail with 'No discovery targets found', and one holding a target that
\* is not connected makes it fail with the error naming such a peer; in both cases
\* no discoverer has been created or connected, no discovery request built, signed
\* or sent, no call is left pending, and the Network stays uninitialized.
C11_BadExplicitTargetsFailBeforeAnyCall ==
    [][(DiscoveryCall /\ result'.arg.targets.given) =>
          LET list == result'.arg.targets.list IN
          /\ list = <<>> => result'.threw = NoTargets
          /\ Unconnected(list) # {} =>
                \E n \in Unconnected(list) : result'.threw = NotConnected(n)
          /\ (list = <<>> \/ Unconnected(list) # {}) =>
                /\ network' = network
                /\ inits' = inits
                /\ ~network'.initialized]_vars

\* _initialize has just failed on explicit targets of which B is not connected,
\* naming B, with no call made on the channel or its client.
C11_Witness ==
    /\ result.op = "_initialize"
    /\ result.arg.enabled /\ result.arg.targets.given
    /\ Unconnected(result.arg.targets.list) = {"B"}
    /\ result.threw = NotConnected("B")
    /\ ~network.initialized /\ network.connects = 0 /\ network.requests = 0
    /\ inits = <<>>

\* C12: with discovery enabled and no targets given, the targets are the channel's
\* endorsers of the caller's organization if there are any, else the client's
\* endorsers of that organization if there are any, else all the client's
\* endorsers if there are any; else _initialize fails with 'No discovery targets
\* found', and nothing is left pending that would try again.
C12_TargetPrecedence ==
    [][(DiscoveryCall /\ ~result'.arg.targets.given) =>
          LET d == result'.arg
              chosen == IF d.channelMsp # <<>> THEN d.channelMsp
                        ELSE IF d.clientMsp # <<>> THEN d.clientMsp
                        ELSE d.clientAll IN
          IF chosen = <<>>
          THEN /\ result'.threw = NoTargets
               /\ inits' = inits
               /\ network' = network
          ELSE /\ result'.threw = None
               /\ Len(inits') = Len(inits) + 1
               /\ inits'[Len(inits')].targets = chosen]_vars

\* The channel has no endorser of the organization, the client has A, and among
\* all its endorsers A and B: discovery goes to A alone.
C12_Witness ==
    /\ result.op = "_initialize" /\ result.threw = None
    /\ result.arg.enabled /\ ~result.arg.targets.given
    /\ result.arg.channelMsp = <<>>
    /\ Len(result.arg.clientMsp) = 1 /\ Len(result.arg.clientAll) = 2
    /\ inits # <<>>
    /\ inits[Len(inits)].targets = result.arg.clientMsp

\* the per-peer transaction listeners of commit listener sessions still registered
OwnedListeners == {l \in UNION {eventListeners[s] : s \in Peers} : lsn[l].owner # 0}

\* C13 as stated: once _dispose has returned, no per-peer transaction listener of a
\* commit listener session is registered on an event stream, and every session the
\* commit listener map holds has been closed.
C13_DisposeClosesCommitSessions ==
    (result.op = "_dispose" /\ result.threw = None) =>
        /\ OwnedListeners = {}
        /\ \A c \in Callbacks :
              commitListeners[c] # 0 => sessions[commitListeners[c]].closed

\* C14 as stated: after _dispose, called in any state, unregister has been called on
\* every listener saved in the registry, the contract map is empty, the event
\* service manager has been disposed and the channel closed.
C14_DisposeTearsDownEverything ==
    result.op = "_dispose" =>
        /\ network.listeners \subseteq network.unregistered
        /\ network.contracts = {}
        /\ network.eventServiceManager = "disposed"
        /\ network.channelClosed

\* _dispose has returned and the Network has not been initialized again.
Disposed ==
    /\ network.channelClosed
    /\ network.eventServiceManager = "disposed"
    /\ ~network.initialized

\* C15 as stated: on a disposed Network each of getContract, addBlockListener and
\* addCommitListener fails with an error and adds no entry to the contract map, the
\* listener registry or the commit listener map.
C15_WorkOnDisposedNetworkFails ==
    [][(Disposed /\ result'.op \in {"getContract", "addBlockListener", "addCommitListener"}) =>
          /\ result'.threw # None
          /\ network'.contracts = network.contracts
          /\ network'.listeners = network.listeners
          /\ commitListeners' = commitListeners]_vars

\* C17 as stated, for _initialize calls in flight together: no discovery service is
\* created, and no request built, signed and sent, while another _initialize call of
\* the same Network has sent its own request and has not failed.
C17_DiscoveryOncePerSession ==
    [][network'.requests > network.requests =>
          ~\E i \in DOMAIN inits : inits[i].pc \in {"send", "finish"}
                                     /\ inits[i].targets # <<>>]_vars

\* C19 as stated: a session whose start() has rejected is not the entry of its
\* callback in the commit listener map.
C19_FailedAddLeavesNoEntry ==
    \A sid \in DOMAIN sessions :
        sessions[sid].pc = "rejected" => commitListeners[sessions[sid].listener] # sid

\* C20 as stated: whenever the initialized flag is set, queryHandler and
\* eventServiceManager are set, and an _initialize call that has failed leaves the
\* flag unset (so that getContract throws).
C20_InitializedHasHandlers ==
    /\ network.initialized =>
          (network.queryHandler # "null" /\ network.eventServiceManager # "null")
    /\ (result.op = "resume" /\ result.arg = "_initialize" /\ result.threw # None) =>
          ~network.initialized

\* C16: while the callback of a listener whose unregister option is not false is
\* running, the listener is not in its stream's set; and when such a callback
\* throws, the listener is not in the set afterwards.
C16_UnregisteredBeforeCallback ==
    /\ [](\A i \in DOMAIN stack :
            (stack[i].kind = "dispatch" /\ stack[i].phase = "cb" /\ OneShot(stack[i].cur))
                => ~Registered(stack[i].cur))
    /\ [][(result'.op = "callbackThrow" /\ Top.kind = "dispatch" /\ OneShot(Top.cur))
              => Top.cur \notin eventListeners'[Top.stream]]_vars

\* The callback of the only listener, registered without the unregister option, has
\* thrown on its first invocation, and the listener is gone from the set.
C16_Witness ==
    /\ result.op = "callbackThrow"
    /\ stack = <<>>
    /\ Len(lsn) = 1 /\ lsn[1].unregister = "unset"
    /\ calls[1].event + calls[1].error = 1
    /\ ~Registered(1)

\* the sessions whose start() has not completed
Starting == {sid \in DOMAIN sessions : sessions[sid].pc \in {"opening", "notifying"}}

\* C18: a session that is being started and has not been closed is the entry of its
\* callback in the commit listener map; removeCommitListener of a callback that has
\* an entry closes that session, unregistering its listeners, and deletes the
\* entry; and the map is changed by addCommitListener and removeCommitListener
\* calls only, so the rest of start() and of addCommitListener re-adds nothing.
C18_StoredBeforeStart ==
    /\ [](\A sid \in Starting :
            ~sessions[sid].closed => commitListeners[sessions[sid].listener] = sid)
    /\ [][/\ result'.op = "removeCommitListener" =>
                LET c == result'.arg
                    sid == commitListeners[c] IN
                IF sid = 0 THEN commitListeners' = commitListeners
                ELSE /\ sessions'[sid].closed
                     /\ commitListeners'[c] = 0
                     /\ \A p \in Peers :
                           sessions[sid].handles[p] \notin eventListeners'[p]
           /\ commitListeners' # commitListeners =>
                result'.op \in {"addCommitListener", "removeCommitListener"}]_vars

\* The callback, notified of a stream-open error while its session is being started,
\* has removed its own commit listener: the session is closed and the entry gone.
C18_Witness ==
    /\ result.op = "removeCommitListener"
    /\ IF stack = <<>> THEN FALSE
       ELSE /\ Top.kind = "notify"
            /\ sessions[Top.sid].listener = result.arg
            /\ sessions[Top.sid].pc = "notifying"
            /\ sessions[Top.sid].closed
            /\ commitListeners[result.arg] = 0
====
